---- MODULE Spec2Model ----
(***************************************************************************)
(* Model of verification_script.py: the runner under `__main__` (launch,   *)
(* new_page, try / except / finally) and verify_frontend(page), a straight *)
(* line of fourteen calls on the page.  The target site, the navigation    *)
(* latency and the failures of the browser engine are the inputs.          *)
(***************************************************************************)
EXTENDS Naturals, Sequences, FiniteSets

(* ------------------------------ bounds -------------------------------- *)
\* ticks an assertion polls before it gives up (expect's timeout)
PollTimeout == 2
\* the navigation started by the click may take one tick longer than that
MaxLatency == PollTimeout + 1
\* detail pages omit at most this many of the nine fragments
MaxMissing == 1
\* index pages show at most this many of the nine fragments
MaxIndexFrags == 1

(* ------------------------- texts and paths ---------------------------- *)
EventText == "Test Event 1"

Fragments ==
  {"Categories", "Music", "Child Friendly", "Ages", "21+",
   "Price", "$15", "Source", "Somerville Theatre"}

IndexPng == "index.png"
DetailPng == "detail.png"
FailurePng == "failure.png"

\* verify_frontend, call by call
Program ==
  << [op |-> "goto", arg |-> "http://localhost:8080/", step |-> 1],
     [op |-> "expect", arg |-> "Test Event 1", step |-> 2],
     [op |-> "screenshot", arg |-> IndexPng, step |-> 3],
     [op |-> "click", arg |-> "Test Event 1", step |-> 4],
     [op |-> "expect", arg |-> "Categories", step |-> 5],
     [op |-> "expect", arg |-> "Music", step |-> 5],
     [op |-> "expect", arg |-> "Child Friendly", step |-> 5],
     [op |-> "expect", arg |-> "Ages", step |-> 5],
     [op |-> "expect", arg |-> "21+", step |-> 5],
     [op |-> "expect", arg |-> "Price", step |-> 5],
     [op |-> "expect", arg |-> "$15", step |-> 5],
     [op |-> "expect", arg |-> "Source", step |-> 5],
     [op |-> "expect", arg |-> "Somerville Theatre", step |-> 5],
     [op |-> "screenshot", arg |-> DetailPng, step |-> 6] >>

NCalls == Len(Program)

(* --------------------------- the target ------------------------------- *)
\* what a target can be: unreachable; an index page without the event (its
\* detail view is never asked for); or an index page with the event, a detail
\* page (each the set of texts it shows) and the latency of the detail view
Targets ==
  { [reachable |-> FALSE, index |-> {}, detail |-> {}, latency |-> 0] }
  \cup
  { [reachable |-> TRUE, index |-> fr, detail |-> Fragments, latency |-> 0] :
      fr \in {s \in SUBSET Fragments : Cardinality(s) <= MaxIndexFrags} }
  \cup
  { [reachable |-> TRUE, index |-> {EventText} \cup fr,
     detail |-> Fragments \ miss, latency |-> l] :
      fr \in {s \in SUBSET Fragments : Cardinality(s) <= MaxIndexFrags},
      miss \in {s \in SUBSET Fragments : Cardinality(s) <= MaxMissing},
      l \in 0..MaxLatency }

VARIABLES
  target,        \* the site under verification, unchanged between runs
  files,         \* the artifact directory
  run,           \* which run of the procedure this is
  prev,          \* outcome of the previous run
  pc,            \* position in __main__
  ip,            \* position in verify_frontend (index into Program)
  browser,       \* "none" | "open" | "closed"
  closeCount,    \* calls of browser.close() in this run
  page,          \* what the page displays
  navPending,    \* the click's navigation has not completed yet
  clock,         \* ticks since the click, while the navigation is pending
  elapsed,       \* ticks the current assertion has been polling
  polling,       \* the current assertion has polled at least once
  exc,           \* the exception raised by a step, or NoExc
  uncaught,      \* where an exception that propagates was raised
  failedAt,      \* index in Program of the call that raised, 0 if none
  out,           \* standard output
  caught,        \* times the except clause was entered
  failShots,     \* attempts of the failure screenshot
  stepLog,       \* the calls of verify_frontend that were started
  fault,         \* an engine call (launch, new_page, click, screenshot) failed
  status         \* "running" | "normal" | "abnormal"

vars ==
  << target, files, run, prev, pc, ip, browser, closeCount, page, navPending,
     clock, elapsed, polling, exc, uncaught, failedAt, out, caught, failShots,
     stepLog, fault, status >>

envVars == << target >>
runVars == << run, prev >>
pageVars == << page, navPending, clock >>
pollVars == << elapsed, polling >>

NoExc == [kind |-> "none", msg |-> ""]
NoOutcome == [printed |-> << >>, failedAt |-> 0, status |-> "none", fault |-> FALSE]

Success == << "Verification successful!" >>
Failed(e) == << "Verification failed: ", e.msg >>

\* the texts visible on what the page displays
Shown(p) ==
  CASE p = "index" -> target.index
    [] p = "detail" -> target.detail
    [] OTHER -> {}

Init ==
  /\ target \in Targets
  /\ files = {}
  /\ run = 1
  /\ prev = NoOutcome
  /\ pc = "launch"
  /\ ip = 1
  /\ browser = "none"
  /\ closeCount = 0
  /\ page = "none"
  /\ navPending = FALSE
  /\ clock = 0
  /\ elapsed = 0
  /\ polling = FALSE
  /\ exc = NoExc
  /\ uncaught = "none"
  /\ failedAt = 0
  /\ out = << >>
  /\ caught = 0
  /\ failShots = 0
  /\ stepLog = << >>
  /\ fault = FALSE
  /\ status = "running"


(* ----------------------- control flow helpers ------------------------- *)
Call == Program[ip]

InVerify(op) == pc = "verify" /\ ip <= NCalls /\ Call.op = op

\* the call returns: verify_frontend goes on with the next line
Advance ==
  /\ ip' = ip + 1
  /\ UNCHANGED << pc, exc, failedAt >>

\* (variant) the exception is swallowed and the next line runs
RaiseAndContinue(e) ==
  /\ exc' = e
  /\ failedAt' = ip
  /\ ip' = ip + 1
  /\ UNCHANGED pc

\* the call raises: control leaves verify_frontend for the except clause
Raise(e) ==
  /\ exc' = e
  /\ failedAt' = ip
  /\ pc' = "except"
  /\ UNCHANGED ip

Started == stepLog' = Append(stepLog, Call)

\* (variant) the assertion looks once and does not poll
PollOnce(visible, t) == IF visible THEN "pass" ELSE "raise"

\* (variant) the locator is built but its visibility is never asserted
PollNoCheck(visible, t) == "pass"

\* to_be_visible(): one look at the page, then pass, wait or give up
PollResult(visible, t) ==
  IF visible THEN "pass"
  ELSE IF t < PollTimeout THEN "retry"
  ELSE "raise"

\* (variant) every capture goes to the failure path
CaptureWrongPath(path) == files \cup {FailurePng}

\* screenshot(path=...): the file is written, overwriting what is there
Capture(path) == files \cup {path}

Outcome ==
  [printed |-> out, failedAt |-> failedAt, status |-> status, fault |-> fault]

(* ---------------------------- __main__ -------------------------------- *)
\* browser = p.chromium.launch(headless=True)
Launch ==
  /\ pc = "launch"
  /\ \E ok \in BOOLEAN :
       IF ok
       THEN /\ browser' = "open"
            /\ pc' = "new_page"
            /\ UNCHANGED << uncaught, fault >>
       ELSE /\ pc' = "exit"
            /\ uncaught' = "launch"
            /\ fault' = TRUE
            /\ UNCHANGED browser
  /\ UNCHANGED << envVars, runVars, pageVars, pollVars, files, ip, closeCount,
                  exc, failedAt, out, caught, failShots, stepLog, status >>

\* page = browser.new_page(), before the try statement
NewPage ==
  /\ pc = "new_page"
  /\ \E ok \in BOOLEAN :
       IF ok
       THEN /\ page' = "blank"
            /\ pc' = "verify"
            /\ UNCHANGED << uncaught, fault >>
       ELSE /\ pc' = "exit"
            /\ uncaught' = "new_page"
            /\ fault' = TRUE
            /\ UNCHANGED page
  /\ UNCHANGED << envVars, runVars, pollVars, navPending, clock, files, ip,
                  browser, closeCount, exc, failedAt, out, caught, failShots,
                  stepLog, status >>

(* ------------------------- verify_frontend ---------------------------- *)
\* page.goto(...): returns once the page is loaded, raises if it cannot be
Goto ==
  /\ InVerify("goto")
  /\ Started
  /\ IF target.reachable
     THEN /\ page' = "index"
          /\ Advance
     ELSE /\ page' = "error"
          /\ Raise([kind |-> "NavigationError", msg |-> Call.arg])
  /\ UNCHANGED << envVars, runVars, pollVars, navPending, clock, files,
                  browser, closeCount, uncaught, out, caught, failShots, fault, status >>

\* expect(page.get_by_text(t)).to_be_visible(): one poll of the assertion
Expect ==
  /\ InVerify("expect")
  /\ LET r == PollResult(Call.arg \in Shown(page), elapsed) IN
       /\ r = "retry" => (navPending => clock < target.latency)
       /\ stepLog' = IF polling THEN stepLog ELSE Append(stepLog, Call)
       /\ CASE r = "pass" ->
                 /\ Advance
                 /\ elapsed' = 0
                 /\ polling' = FALSE
                 /\ UNCHANGED clock
            [] r = "retry" ->
                 /\ elapsed' = elapsed + 1
                 /\ polling' = TRUE
                 /\ clock' = IF navPending THEN clock + 1 ELSE clock
                 /\ UNCHANGED << pc, ip, exc, failedAt >>
            [] OTHER ->
                 /\ Raise([kind |-> "AssertionError", msg |-> Call.arg])
                 /\ elapsed' = 0
                 /\ polling' = FALSE
                 /\ UNCHANGED clock
  /\ UNCHANGED << envVars, runVars, page, navPending, files, browser,
                  closeCount, uncaught, out, caught, failShots, fault, status >>

\* page.screenshot(path=...) of steps 3 and 6
Screenshot ==
  /\ InVerify("screenshot")
  /\ Started
  /\ \E ok \in BOOLEAN :
       IF ok
       THEN /\ files' = Capture(Call.arg)
            /\ Advance
            /\ UNCHANGED fault
       ELSE /\ Raise([kind |-> "Error", msg |-> Call.arg])
            /\ fault' = TRUE
            /\ UNCHANGED files
  /\ UNCHANGED << envVars, runVars, pageVars, pollVars, browser, closeCount,
                  uncaught, out, caught, failShots, status >>

\* page.get_by_text("Test Event 1").click(): starts the navigation to the
\* detail view and returns without waiting for it
Click ==
  /\ InVerify("click")
  /\ Started
  /\ \E ok \in BOOLEAN :
       IF ok /\ Call.arg \in Shown(page)
       THEN /\ navPending' = TRUE
            /\ clock' = 0
            /\ Advance
            /\ UNCHANGED fault
       ELSE /\ Raise([kind |-> "Error", msg |-> Call.arg])
            /\ fault' = IF Call.arg \in Shown(page) THEN TRUE ELSE fault
            /\ UNCHANGED << navPending, clock >>
  /\ UNCHANGED << envVars, runVars, pollVars, page, files, browser,
                  closeCount, uncaught, out, caught, failShots, status >>

\* the target renders the detail view, at most target.latency after the click
NavComplete ==
  /\ navPending
  /\ browser = "open"
  /\ page' = "detail"
  /\ navPending' = FALSE
  /\ clock' = 0
  /\ UNCHANGED << envVars, runVars, pollVars, files, pc, ip, browser,
                  closeCount, exc, uncaught, failedAt, out, caught, failShots,
                  stepLog, fault, status >>

(* ------------------ try / except / finally of __main__ ---------------- *)
\* verify_frontend returned: print("Verification successful!")
PrintOk ==
  /\ pc = "verify"
  /\ ip = NCalls + 1
  /\ out' = Append(out, Success)
  /\ pc' = "finally"
  /\ UNCHANGED << envVars, runVars, pageVars, pollVars, files, ip, browser,
                  closeCount, exc, uncaught, failedAt, caught, failShots,
                  stepLog, fault, status >>

\* (variant) the except clause does not print
ExceptSilent ==
  /\ pc = "except"
  /\ caught' = caught + 1
  /\ pc' = "fail_shot"
  /\ UNCHANGED << envVars, runVars, pageVars, pollVars, files, ip, browser,
                  closeCount, exc, uncaught, failedAt, failShots, stepLog, fault, status, out >>

\* except Exception as e: print(f"Verification failed: {e}")
Except ==
  /\ pc = "except"
  /\ caught' = caught + 1
  /\ out' = Append(out, Failed(exc))
  /\ pc' = "fail_shot"
  /\ UNCHANGED << envVars, runVars, pageVars, pollVars, files, ip, browser,
                  closeCount, exc, uncaught, failedAt, failShots, stepLog, fault, status >>

\* (variant) a failure of the failure screenshot is swallowed
FailShotGuarded ==
  /\ pc = "fail_shot"
  /\ failShots' = failShots + 1
  /\ pc' = "finally"
  /\ \E ok \in BOOLEAN :
       IF ok
       THEN /\ files' = Capture(FailurePng)
            /\ UNCHANGED fault
       ELSE /\ fault' = TRUE
            /\ UNCHANGED files
  /\ UNCHANGED << envVars, runVars, pageVars, pollVars, ip, browser,
                  closeCount, exc, failedAt, out, caught, stepLog,
                  status, uncaught >>

\* page.screenshot(path=".../failure.png") inside the except clause
FailShot ==
  /\ pc = "fail_shot"
  /\ failShots' = failShots + 1
  /\ pc' = "finally"
  /\ \E ok \in BOOLEAN :
       IF ok
       THEN /\ files' = Capture(FailurePng)
            /\ UNCHANGED << uncaught, fault >>
       ELSE /\ uncaught' = "failure_screenshot"
            /\ fault' = TRUE
            /\ UNCHANGED files
  /\ UNCHANGED << envVars, runVars, pageVars, pollVars, ip, browser,
                  closeCount, exc, failedAt, out, caught, stepLog,
                  status >>

\* finally: browser.close()
Finally ==
  /\ pc = "finally"
  /\ browser' = "closed"
  /\ closeCount' = closeCount + 1
  /\ navPending' = FALSE
  /\ clock' = 0
  /\ pc' = "exit"
  /\ UNCHANGED << envVars, runVars, pollVars, page, files, ip, exc,
                  uncaught, failedAt, out, caught, failShots, stepLog,
                  fault, status >>

\* the with statement is left, normally or by the propagating exception
ExitWith ==
  /\ pc = "exit"
  /\ pc' = "done"
  /\ status' = IF uncaught = "none" THEN "normal" ELSE "abnormal"
  /\ UNCHANGED << envVars, runVars, pageVars, pollVars, files, ip, browser,
                  closeCount, exc, uncaught, failedAt, out, caught, failShots,
                  stepLog, fault >>

\* the script is run a second time, against the same target and the artifact
\* directory as the first run left it
Rerun ==
  /\ pc = "done"
  /\ run = 1
  /\ run' = run + 1
  /\ prev' = Outcome
  /\ pc' = "launch"
  /\ ip' = 1
  /\ browser' = "none"
  /\ closeCount' = 0
  /\ page' = "none"
  /\ navPending' = FALSE
  /\ clock' = 0
  /\ elapsed' = 0
  /\ polling' = FALSE
  /\ exc' = NoExc
  /\ uncaught' = "none"
  /\ failedAt' = 0
  /\ out' = << >>
  /\ caught' = 0
  /\ failShots' = 0
  /\ stepLog' = << >>
  /\ fault' = FALSE
  /\ status' = "running"
  /\ UNCHANGED << envVars, files >>

Next ==
  \/ Launch
  \/ NewPage
  \/ Goto
  \/ Expect
  \/ Screenshot
  \/ Click
  \/ NavComplete
  \/ PrintOk
  \/ Except
  \/ FailShot
  \/ Finally
  \/ ExitWith

\* one run of the script
Spec == Init /\ [][Next]_vars

\* the interpreter always takes its next step, and the target always answers
FairSpec == Spec /\ WF_vars(Next)

\* the script run twice in succession
NextTwice == Next \/ Rerun

TwiceSpec == Init /\ [][NextTwice]_vars


(* ======================= properties of the runner ===================== *)
Done == pc = "done"

\* the artifact directory was empty when this run started
FreshRun == run = 1

IsPrefix(s, t) == Len(s) <= Len(t) /\ s = SubSeq(t, 1, Len(s))

FailedStep == IF failedAt = 0 THEN 0 ELSE Program[failedAt].step

ScenarioA ==
  /\ target.reachable
  /\ EventText \in target.index
  /\ target.detail = Fragments

ScenarioBD == ~target.reachable \/ EventText \notin target.index

ScenarioC ==
  /\ target.reachable
  /\ EventText \in target.index
  /\ Cardinality(Fragments \ target.detail) = 1

\* the detail view is rendered before an assertion started at the click expires
InTime == target.latency < PollTimeout

\* C1: on every exit path of the runner once the browser has been launched,
\* browser.close() has been called exactly once (and never more than once
\* before that).
C1_ClosedExactlyOnce ==
  /\ closeCount <= 1
  /\ (Done /\ browser # "none") => closeCount = 1

\* C2: every visibility assertion is evaluated only against the page its
\* navigation leads to: "Test Event 1" against the loaded index page, each of
\* the nine detail fragments against the detail view, after the navigation
\* started by the click has completed, and never against the index page that
\* is still displayed.
C2_AssertAfterNavigation ==
  [][ Expect =>
        /\ page = (IF Call.step = 2 THEN "index" ELSE "detail")
        /\ ~navPending ]_vars

\* C3 (scenario A): the index page shows "Test Event 1", the detail page shows
\* all nine fragments in time and no engine call fails; then the finished run
\* has printed "Verification successful!" and nothing else, index.png and
\* detail.png exist and failure.png does not.
C3_HappyPath ==
  (Done /\ FreshRun /\ ~fault /\ ScenarioA /\ InTime) =>
    /\ out = << Success >>
    /\ status = "normal"
    /\ {IndexPng, DetailPng} \subseteq files
    /\ FailurePng \notin files

C3_Witness ==
  /\ Done /\ FreshRun /\ ~fault /\ ScenarioA /\ InTime
  /\ target.latency > 0
  /\ files = {IndexPng, DetailPng}

\* C4 (scenario C): the index steps succeed and the detail page omits one of
\* the nine fragments; then the run fails at step 5, and afterwards index.png
\* and failure.png exist and detail.png does not.
C4_MissingDetailField ==
  (Done /\ FreshRun /\ ~fault /\ ScenarioC) =>
    /\ FailedStep = 5
    /\ IndexPng \in files
    /\ FailurePng \in files
    /\ DetailPng \notin files

\* C5 (scenarios B and D): the target is unreachable, or its index page does
\* not show "Test Event 1"; then the run fails at step 1 or at step 2, prints
\* one message that starts with "Verification failed:", and failure.png is
\* the only screenshot that exists afterwards.
C5_FailBeforeIndexCapture ==
  (Done /\ FreshRun /\ ~fault /\ ScenarioBD) =>
    /\ FailedStep = (IF target.reachable THEN 2 ELSE 1)
    /\ Len(out) = 1
    /\ out[1] # Success
    /\ out[1][1] = "Verification failed: "
    /\ files = {FailurePng}

C5_Witness ==
  /\ Done /\ FreshRun /\ ~fault /\ ScenarioBD
  /\ target.reachable
  /\ target.index # {}
  /\ files = {FailurePng}

\* C6: whatever a step raises is caught once; the runner prints
\* "Verification failed: {message}" before it attempts the failure
\* screenshot; and a run whose steps were started prints exactly one message,
\* the success message iff no step raised, the failure message iff one did.
C6_CaughtOnceOneMessage ==
  /\ caught <= 1
  /\ Len(out) <= 1
  /\ (failedAt # 0) <=> (exc # NoExc)
  /\ failShots > 0 => (caught = 1 /\ out = << Failed(exc) >>)
  /\ (stepLog # << >> /\ pc \in {"fail_shot", "finally", "exit", "done"}) =>
       /\ Len(out) = 1
       /\ (out[1] = Success) <=> (failedAt = 0)
       /\ (out[1] = Failed(exc)) <=> (failedAt # 0)
       /\ caught = (IF failedAt = 0 THEN 0 ELSE 1)
       /\ (pc # "fail_shot") => (failShots = caught)

C6_Witness ==
  /\ Done
  /\ FailedStep = 5
  /\ exc.kind = "AssertionError"
  /\ out = << Failed(exc) >>
  /\ FailurePng \in files

\* C7: when the failure screenshot itself raises, that exception is not
\* caught: it propagates and the run ends abnormally; the only message
\* printed is the failure message of the original error, which was printed
\* before; the capture is attempted once.
C7_SecondaryFailurePropagates ==
  /\ failShots <= 1
  /\ (FreshRun /\ failShots = 1 /\ FailurePng \notin files) =>
       /\ uncaught = "failure_screenshot"
       /\ pc \in {"finally", "exit", "done"}
       /\ out = << Failed(exc) >>
       /\ caught = 1
       /\ Done => status = "abnormal"

C7_Witness ==
  /\ Done /\ FreshRun
  /\ failShots = 1
  /\ FailurePng \notin files
  /\ status = "abnormal"
  /\ closeCount = 1

\* C8: the calls of verify_frontend are started in program order, each at
\* most once and only after the one before it returned; once a call has
\* raised no further call is started; the success message is printed only
\* after all of them.
C8_StrictOrderAbortOnFirst ==
  /\ IsPrefix(stepLog, Program)
  /\ pc = "verify" =>
       /\ failedAt = 0
       /\ Len(stepLog) = (IF polling THEN ip ELSE ip - 1)
  /\ failedAt # 0 => (Len(stepLog) = failedAt /\ pc # "verify")
  /\ out = << Success >> => stepLog = Program

C8_Witness ==
  /\ Done
  /\ FailedStep = 5
  /\ Len(stepLog) = failedAt
  /\ Len(stepLog) < NCalls - 1
  /\ Len(stepLog) > NCalls - 4

\* C9: two runs in succession against the same target, in neither of which an
\* engine call fails, end with the same outcome: the same output, the same
\* failing call and the same exit.  (Stated for targets that render the
\* detail view in time; the claim covers the others as well.)
C9_Idempotent ==
  (Done /\ run > 1 /\ ~fault /\ ~prev.fault /\ InTime) => Outcome = prev

\* C10: an assertion raises only when its timeout has expired and its text is
\* not visible on the page then; and when the detail view shows all nine
\* fragments and is rendered in time, a run that is at step 5 reaches step 6.
C10_PollingToleratesLatency ==
  /\ [][ (InVerify("expect") /\ pc' = "except") =>
           (elapsed = PollTimeout /\ Call.arg \notin Shown(page)) ]_vars
  /\ ( (InVerify("expect") /\ Call.step = 5 /\ target.detail = Fragments
          /\ InTime)
       ~> (InVerify("screenshot") /\ Call.step = 6) )

C10_Witness ==
  /\ InVerify("expect") /\ Call.step = 5
  /\ target.detail = Fragments
  /\ InTime
  /\ navPending /\ page = "index"
  /\ polling /\ elapsed > 0
  /\ Call.arg \notin Shown(page)

====
